---- MODULE Spec2Model ----
(***************************************************************************)
(* Flight booking store (src/src/index.ts): a StableBTreeMap from booking  *)
(* id to FlightBooking record, with ten canister methods.                  *)
(*                                                                         *)
(* Strings are sequences of one-character strings, so that toLowerCase and *)
(* includes are computed character by character.  Booking ids are natural  *)
(* numbers standing for uuid strings; their numeric order stands for the   *)
(* lexicographic key order of the map.  An Opt value is <<>> (None) or     *)
(* <<v>> (Some v).  An error message is the sequence of the pieces of its  *)
(* template literal, the interpolated id printed with ToString.            *)
(* The map is modelled by its interface (get, insert, remove, values, len);*)
(* its key and value size limits are not modelled.                         *)
(***************************************************************************)
EXTENDS Integers, Sequences, FiniteSets, TLC

VARIABLES
    flightBookingStorage, \* the map: a function from the stored ids to records
    generated,            \* the ids uuidv4() has returned so far
    now,                  \* the last value ic.time() returned
    call,                 \* the last canister call: method and arguments
    result,               \* what that call returned
    okAdds,               \* number of addFlightBooking calls that returned Ok
    okDeletes,            \* number of deleteFlightBooking calls that returned Ok
    inFlight              \* <<>>, or <<u>> for an updateFlightBooking that has
                          \* looked its record up and not yet written it back

vars == <<flightBookingStorage, generated, now, call, result, okAdds, okDeletes,
          inFlight>>

----------------------------------------------------------------------------
(* Bounds of the model *)

MaxIds == 2
MaxNow == 2
MaxTime == 3
MaxKeyLen == 2
MaxPage == 2
MaxVaried == 1

Ids == 1..MaxIds
Times == 0..MaxTime

Chars == {"a", "A", "b"}

\* every string over Chars of length at most n
Strs(n) == UNION {[1..k -> Chars] : k \in 0..n}

Airlines == {<<>>, <<"a">>, <<"A", "b">>}
Airports == {<<>>, <<"a">>, <<"b">>}
Keywords == Strs(MaxKeyLen)

AllPayloads ==
    [airline : Airlines, departureAirport : Airports, arrivalAirport : Airports,
     departureTime : Times, arrivalTime : Times]

\* a payload that passes both checks; the payloads of the model differ from it
\* in at most MaxVaried of the five fields
BasePayload ==
    [airline |-> <<"a">>, departureAirport |-> <<"a">>, arrivalAirport |-> <<"b">>,
     departureTime |-> 1, arrivalTime |-> 2]

Varied(payload) ==
    Cardinality({field \in DOMAIN BasePayload :
                    payload[field] # BasePayload[field]})

Payloads == {payload \in AllPayloads : Varied(payload) <= MaxVaried}

----------------------------------------------------------------------------
(* Result and Opt values *)

Ok(v) == [tag |-> "Ok", val |-> v]
Err(msg) == [tag |-> "Err", val |-> msg]

None == <<>>
Some(v) == <<v>>

----------------------------------------------------------------------------
(* The map's interface *)

Has(store, key) == key \in DOMAIN store

\* faulty variant: the insert replaces the map by the one entry
Insert_ReplacesMap(store, key, value) == [k \in {key} |-> value]

Insert(store, key, value) ==
    [k \in (DOMAIN store) \cup {key} |-> IF k = key THEN value ELSE store[k]]

\* faulty variant: the entry is returned but stays in the map
Remove_KeepsEntry(store, key) == store

\* faulty variant: the entries under smaller keys go with the removed one
Remove_DropsSmallerKeys(store, key) ==
    [k \in {k \in DOMAIN store : k > key} |-> store[k]]

Remove(store, key) ==
    [k \in (DOMAIN store) \ {key} |-> store[k]]

RECURSIVE KeysInOrder(_)
KeysInOrder(keys) ==
    IF keys = {} THEN <<>>
    ELSE LET least == CHOOSE k \in keys : \A other \in keys : k <= other
         IN  <<least>> \o KeysInOrder(keys \ {least})

\* values(): the stored records in key order
Values(store) ==
    LET keys == KeysInOrder(DOMAIN store)
    IN  [i \in 1..Len(keys) |-> store[keys[i]]]

MapLen(store) == Cardinality(DOMAIN store)

----------------------------------------------------------------------------
(* String helpers *)

LowerChar(c) == IF c = "A" THEN "a" ELSE IF c = "B" THEN "b" ELSE c

toLowerCase(s) == [i \in 1..Len(s) |-> LowerChar(s[i])]

includes(s, sub) ==
    \E start \in 0..(Len(s) - Len(sub)) :
        SubSeq(s, start + 1, start + Len(sub)) = sub

\* Array.prototype.slice(start, end) on integer arguments
slice(seq, start, end) ==
    LET len == Len(seq)
        from == IF start < 0 THEN (IF len + start < 0 THEN 0 ELSE len + start)
                ELSE (IF start > len THEN len ELSE start)
        to == IF end < 0 THEN (IF len + end < 0 THEN 0 ELSE len + end)
              ELSE (IF end > len THEN len ELSE end)
    IN  SubSeq(seq, from + 1, to)

----------------------------------------------------------------------------
(* Validation and record construction *)

\* faulty variant: a zero arrivalTime is not checked
InvalidInput_IgnoresArrivalTime(payload) ==
    \/ Len(payload.airline) = 0
    \/ Len(payload.departureAirport) = 0
    \/ Len(payload.arrivalAirport) = 0
    \/ payload.departureTime = 0

\* line 67 / 101: a falsy field (empty string, zero)
InvalidInput(payload) ==
    \/ Len(payload.airline) = 0
    \/ Len(payload.departureAirport) = 0
    \/ Len(payload.arrivalAirport) = 0
    \/ payload.departureTime = 0
    \/ payload.arrivalTime = 0

\* faulty variant: equal times pass
InvalidTimeRange_AllowsEqual(payload) ==
    payload.departureTime > payload.arrivalTime

\* line 72 / 106
InvalidTimeRange(payload) == payload.departureTime >= payload.arrivalTime

InvalidInputMsg == <<"Invalid input. Please provide all required fields.">>
InvalidTimeRangeMsg == <<"Arrival time must be after the departure time.">>

GetNotFoundMsg(id) ==
    <<"A flight booking with id=", ToString(id), " not found">>
\* faulty variant: the message does not interpolate the id
UpdateNotFoundMsg_WithoutId(id) ==
    <<"Couldn't update a flight booking", ". Flight booking not found">>

UpdateNotFoundMsg(id) ==
    <<"Couldn't update a flight booking with id=", ToString(id),
      ". Flight booking not found">>
DeleteNotFoundMsg(id) ==
    <<"Couldn't delete a flight booking with id=", ToString(id),
      ". Flight booking not found.">>

\* faulty variant: a new booking is stamped as updated
NewFlightBooking_StampsUpdatedAt(payload, id, time) ==
    [id |-> id,
     createdAt |-> time,
     updatedAt |-> Some(time),
     airline |-> payload.airline,
     departureAirport |-> payload.departureAirport,
     arrivalAirport |-> payload.arrivalAirport,
     departureTime |-> payload.departureTime,
     arrivalTime |-> payload.arrivalTime]

\* lines 77-82: { id, createdAt, updatedAt: None, ...payload }
NewFlightBooking(payload, id, time) ==
    [id |-> id,
     createdAt |-> time,
     updatedAt |-> None,
     airline |-> payload.airline,
     departureAirport |-> payload.departureAirport,
     arrivalAirport |-> payload.arrivalAirport,
     departureTime |-> payload.departureTime,
     arrivalTime |-> payload.arrivalTime]

\* faulty variant: the update also resets createdAt
UpdatedFlightBooking_ResetsCreatedAt(flightBooking, payload, time) ==
    [id |-> flightBooking.id,
     createdAt |-> time,
     airline |-> payload.airline,
     departureAirport |-> payload.departureAirport,
     arrivalAirport |-> payload.arrivalAirport,
     departureTime |-> payload.departureTime,
     arrivalTime |-> payload.arrivalTime,
     updatedAt |-> Some(time)]

\* faulty variant: updatedAt is set by the first update only
UpdatedFlightBooking_KeepsFirstUpdatedAt(flightBooking, payload, time) ==
    [id |-> flightBooking.id,
     createdAt |-> flightBooking.createdAt,
     airline |-> payload.airline,
     departureAirport |-> payload.departureAirport,
     arrivalAirport |-> payload.arrivalAirport,
     departureTime |-> payload.departureTime,
     arrivalTime |-> payload.arrivalTime,
     updatedAt |-> IF flightBooking.updatedAt = None
                   THEN Some(time)
                   ELSE flightBooking.updatedAt]

\* lines 113-117: { ...flightBooking, ...payload, updatedAt: Some(time) }
UpdatedFlightBooking(flightBooking, payload, time) ==
    [id |-> flightBooking.id,
     createdAt |-> flightBooking.createdAt,
     airline |-> payload.airline,
     departureAirport |-> payload.departureAirport,
     arrivalAirport |-> payload.arrivalAirport,
     departureTime |-> payload.departureTime,
     arrivalTime |-> payload.arrivalTime,
     updatedAt |-> Some(time)]

\* faulty variant: the airline is compared as stored, case and all
MatchesKeyword_CaseSensitive(booking, keyword) ==
    includes(booking.airline, keyword)

\* line 156
MatchesKeyword(booking, keyword) ==
    includes(toLowerCase(booking.airline), toLowerCase(keyword))

\* faulty variant: overlap instead of containment
InTimeRange_Overlap(booking, startTime, endTime) ==
    booking.departureTime <= endTime /\ booking.arrivalTime >= startTime

\* line 212
InTimeRange(booking, startTime, endTime) ==
    booking.departureTime >= startTime /\ booking.arrivalTime <= endTime

\* faulty variant: pages are counted from 0
paginatedBookings_ZeroIndexed(store, page, pageSize) ==
    LET startIdx == page * pageSize
    IN  slice(Values(store), startIdx, startIdx + pageSize)

\* faulty variant: a page runs one record into the next page
paginatedBookings_OverlappingPages(store, page, pageSize) ==
    LET startIdx == (page - 1) * pageSize
    IN  slice(Values(store), startIdx, startIdx + pageSize + 1)

\* lines 192-193
paginatedBookings(store, page, pageSize) ==
    LET startIdx == (page - 1) * pageSize
    IN  slice(Values(store), startIdx, startIdx + pageSize)

----------------------------------------------------------------------------
(* Initial state: the empty map of a freshly deployed canister *)

Init ==
    /\ flightBookingStorage = <<>>
    /\ generated = {}
    /\ now = 1
    /\ call = [op |-> "none"]
    /\ result = [tag |-> "none"]
    /\ okAdds = 0
    /\ okDeletes = 0
    /\ inFlight = <<>>

----------------------------------------------------------------------------
(* The collaborators: the uuid generator and the canister clock *)

\* faulty variant: the generator may return an id again
uuidv4_MayRepeat == Ids

\* uuidv4(): an id it has not returned before
uuidv4 == Ids \ generated

\* ic.time(): never earlier than the last value read
icTime == now..MaxNow

----------------------------------------------------------------------------
(* The canister methods *)

getFlightBookings ==
    /\ call' = [op |-> "getFlightBookings"]
    /\ result' = Ok(Values(flightBookingStorage))
    /\ UNCHANGED <<flightBookingStorage, generated, now, okAdds, okDeletes>>

\* faulty variant: the lookup takes the entry out of the map
getFlightBooking_TakesEntry(id) ==
    /\ call' = [op |-> "getFlightBooking", id |-> id]
    /\ result' = IF Has(flightBookingStorage, id)
                 THEN Ok(flightBookingStorage[id])
                 ELSE Err(GetNotFoundMsg(id))
    /\ flightBookingStorage' = Remove(flightBookingStorage, id)
    /\ UNCHANGED <<generated, now, okAdds, okDeletes>>

getFlightBooking(id) ==
    /\ call' = [op |-> "getFlightBooking", id |-> id]
    /\ result' = IF Has(flightBookingStorage, id)
                 THEN Ok(flightBookingStorage[id])
                 ELSE Err(GetNotFoundMsg(id))
    /\ UNCHANGED <<flightBookingStorage, generated, now, okAdds, okDeletes>>

\* ic.time() is read on line 79 only, after both checks have passed
addFlightBooking(payload) ==
    /\ call' = [op |-> "addFlightBooking", payload |-> payload]
    /\ IF InvalidInput(payload)
       THEN /\ result' = Err(InvalidInputMsg)
            /\ UNCHANGED <<flightBookingStorage, generated, now, okAdds>>
       ELSE IF InvalidTimeRange(payload)
       THEN /\ result' = Err(InvalidTimeRangeMsg)
            /\ UNCHANGED <<flightBookingStorage, generated, now, okAdds>>
       ELSE \E id \in uuidv4, time \in icTime :
                LET flightBooking == NewFlightBooking(payload, id, time)
                IN  /\ generated' = generated \cup {id}
                    /\ now' = time
                    /\ flightBookingStorage' =
                           Insert(flightBookingStorage, flightBooking.id,
                                  flightBooking)
                    /\ result' = Ok(flightBooking)
                    /\ okAdds' = okAdds + 1
    /\ UNCHANGED okDeletes

\* faulty variant: the record is looked up and written back before the payload is checked
updateFlightBooking_WritesBeforeValidating(id, payload) ==
    /\ call' = [op |-> "updateFlightBooking", id |-> id, payload |-> payload]
    /\ IF Has(flightBookingStorage, id)
       THEN \E time \in icTime :
                LET flightBooking == flightBookingStorage[id]
                    updatedFlightBooking ==
                        UpdatedFlightBooking(flightBooking, payload, time)
                IN  /\ now' = time
                    /\ flightBookingStorage' =
                           Insert(flightBookingStorage, flightBooking.id,
                                  updatedFlightBooking)
                    /\ result' = IF InvalidInput(payload)
                                 THEN Err(InvalidInputMsg)
                                 ELSE IF InvalidTimeRange(payload)
                                 THEN Err(InvalidTimeRangeMsg)
                                 ELSE Ok(updatedFlightBooking)
       ELSE /\ result' = IF InvalidInput(payload)
                         THEN Err(InvalidInputMsg)
                         ELSE IF InvalidTimeRange(payload)
                         THEN Err(InvalidTimeRangeMsg)
                         ELSE Err(UpdateNotFoundMsg(id))
            /\ UNCHANGED <<flightBookingStorage, now>>
    /\ UNCHANGED <<generated, okAdds, okDeletes>>

\* faulty variant: the id is looked up before the payload is checked
updateFlightBooking_LooksUpFirst(id, payload) ==
    /\ call' = [op |-> "updateFlightBooking", id |-> id, payload |-> payload]
    /\ IF ~Has(flightBookingStorage, id)
       THEN /\ result' = Err(UpdateNotFoundMsg(id))
            /\ UNCHANGED <<flightBookingStorage, now>>
       ELSE IF InvalidInput(payload)
       THEN /\ result' = Err(InvalidInputMsg)
            /\ UNCHANGED <<flightBookingStorage, now>>
       ELSE IF InvalidTimeRange(payload)
       THEN /\ result' = Err(InvalidTimeRangeMsg)
            /\ UNCHANGED <<flightBookingStorage, now>>
       ELSE \E time \in icTime :
                LET flightBooking == flightBookingStorage[id]
                    updatedFlightBooking ==
                        UpdatedFlightBooking(flightBooking, payload, time)
                IN  /\ now' = time
                    /\ flightBookingStorage' =
                           Insert(flightBookingStorage, flightBooking.id,
                                  updatedFlightBooking)
                    /\ result' = Ok(updatedFlightBooking)
    /\ UNCHANGED <<generated, okAdds, okDeletes>>

\* ic.time() is read on line 116 only, when the id has been found
updateFlightBooking(id, payload) ==
    /\ call' = [op |-> "updateFlightBooking", id |-> id, payload |-> payload]
    /\ IF InvalidInput(payload)
       THEN /\ result' = Err(InvalidInputMsg)
            /\ UNCHANGED <<flightBookingStorage, now>>
       ELSE IF InvalidTimeRange(payload)
       THEN /\ result' = Err(InvalidTimeRangeMsg)
            /\ UNCHANGED <<flightBookingStorage, now>>
       ELSE IF Has(flightBookingStorage, id)
       THEN \E time \in icTime :
                LET flightBooking == flightBookingStorage[id]
                    updatedFlightBooking ==
                        UpdatedFlightBooking(flightBooking, payload, time)
                IN  /\ now' = time
                    /\ flightBookingStorage' =
                           Insert(flightBookingStorage, flightBooking.id,
                                  updatedFlightBooking)
                    /\ result' = Ok(updatedFlightBooking)
       ELSE /\ result' = Err(UpdateNotFoundMsg(id))
            /\ UNCHANGED <<flightBookingStorage, now>>
    /\ UNCHANGED <<generated, okAdds, okDeletes>>

deleteFlightBooking(id) ==
    /\ call' = [op |-> "deleteFlightBooking", id |-> id]
    /\ IF Has(flightBookingStorage, id)
       THEN /\ result' = Ok(flightBookingStorage[id])
            /\ flightBookingStorage' = Remove(flightBookingStorage, id)
            /\ okDeletes' = okDeletes + 1
       ELSE /\ result' = Err(DeleteNotFoundMsg(id))
            /\ UNCHANGED <<flightBookingStorage, okDeletes>>
    /\ UNCHANGED <<generated, now, okAdds>>

searchFlightBookings(keyword) ==
    /\ call' = [op |-> "searchFlightBookings", keyword |-> keyword]
    /\ result' = Ok(SelectSeq(Values(flightBookingStorage),
                              LAMBDA booking : MatchesKeyword(booking, keyword)))
    /\ UNCHANGED <<flightBookingStorage, generated, now, okAdds, okDeletes>>

countFlightBookings ==
    /\ call' = [op |-> "countFlightBookings"]
    /\ result' = Ok(MapLen(flightBookingStorage))
    /\ UNCHANGED <<flightBookingStorage, generated, now, okAdds, okDeletes>>

getFlightBookingsPaginated(page, pageSize) ==
    /\ call' = [op |-> "getFlightBookingsPaginated", page |-> page,
                pageSize |-> pageSize]
    /\ result' = Ok(paginatedBookings(flightBookingStorage, page, pageSize))
    /\ UNCHANGED <<flightBookingStorage, generated, now, okAdds, okDeletes>>

getFlightBookingsByTimeRange(startTime, endTime) ==
    /\ call' = [op |-> "getFlightBookingsByTimeRange", startTime |-> startTime,
                endTime |-> endTime]
    /\ result' = Ok(SelectSeq(Values(flightBookingStorage),
                              LAMBDA booking :
                                  InTimeRange(booking, startTime, endTime)))
    /\ UNCHANGED <<flightBookingStorage, generated, now, okAdds, okDeletes>>

\* every handler is one step: in Spec no update is ever left in flight
Next ==
    /\ UNCHANGED inFlight
    /\ \/ getFlightBookings
       \/ \E id \in Ids : getFlightBooking(id)
       \/ \E payload \in Payloads : addFlightBooking(payload)
       \/ \E id \in Ids, payload \in Payloads : updateFlightBooking(id, payload)
       \/ \E id \in Ids : deleteFlightBooking(id)
       \/ \E keyword \in Keywords : searchFlightBookings(keyword)
       \/ countFlightBookings
       \/ \E page \in (-1)..MaxPage, pageSize \in (-1)..MaxPage :
              getFlightBookingsPaginated(page, pageSize)
       \/ \E startTime \in Times, endTime \in Times :
              getFlightBookingsByTimeRange(startTime, endTime)

Spec == Init /\ [][Next]_vars

----------------------------------------------------------------------------
(* updateFlightBooking statement by statement: the lookup of line 111 and   *)
(* the write-back of lines 113-119 as two steps, with the calls scheduled   *)
(* as the canister schedules them                                           *)

\* faulty variant: a call may start while an update is between its two steps
RunsToCompletion_Suspends == TRUE

\* a call starts only when no handler is executing: the handlers are
\* synchronous functions, and updateFlightBooking has no await between its
\* get and its insert
RunsToCompletion == inFlight = <<>>

\* lines 100-111 and 121: the checks and the lookup
updateLookup(id, payload) ==
    /\ call' = [op |-> "updateFlightBooking", id |-> id, payload |-> payload]
    /\ IF InvalidInput(payload)
       THEN result' = Err(InvalidInputMsg) /\ UNCHANGED inFlight
       ELSE IF InvalidTimeRange(payload)
       THEN result' = Err(InvalidTimeRangeMsg) /\ UNCHANGED inFlight
       ELSE IF Has(flightBookingStorage, id)
       THEN /\ inFlight' = <<[id |-> id, payload |-> payload,
                              flightBooking |-> flightBookingStorage[id]]>>
            /\ result' = [tag |-> "none"]
       ELSE result' = Err(UpdateNotFoundMsg(id)) /\ UNCHANGED inFlight
    /\ UNCHANGED <<flightBookingStorage, generated, now, okAdds, okDeletes>>

\* lines 113-119: the Some branch
updateWriteBack ==
    /\ inFlight # <<>>
    /\ \E time \in icTime :
           LET flightBooking == inFlight[1].flightBooking
               updatedFlightBooking ==
                   UpdatedFlightBooking(flightBooking, inFlight[1].payload, time)
           IN  /\ now' = time
               /\ flightBookingStorage' =
                      Insert(flightBookingStorage, flightBooking.id,
                             updatedFlightBooking)
               /\ result' = Ok(updatedFlightBooking)
    /\ inFlight' = <<>>
    /\ UNCHANGED <<call, generated, okAdds, okDeletes>>

NextSteps ==
    \/ /\ RunsToCompletion
       /\ UNCHANGED inFlight
       /\ \/ getFlightBookings
          \/ \E id \in Ids : getFlightBooking(id)
          \/ \E payload \in Payloads : addFlightBooking(payload)
          \/ \E id \in Ids : deleteFlightBooking(id)
          \/ \E keyword \in Keywords : searchFlightBookings(keyword)
          \/ countFlightBookings
          \/ \E page \in (-1)..MaxPage, pageSize \in (-1)..MaxPage :
                 getFlightBookingsPaginated(page, pageSize)
          \/ \E startTime \in Times, endTime \in Times :
                 getFlightBookingsByTimeRange(startTime, endTime)
    \/ /\ RunsToCompletion
       /\ \E id \in Ids, payload \in Payloads : updateLookup(id, payload)
    \/ updateWriteBack

SpecSteps == Init /\ [][NextSteps]_vars

----------------------------------------------------------------------------
(* Pagination alone, on every store of up to MaxRecords bookings that adds  *)
(* at clock value 1 produce, with page numbers up to MaxPageArg             *)

MaxRecords == 5
MaxPageArg == 10
MaxSizeArg == 3

InitPagination ==
    \E keys \in SUBSET (1..MaxRecords) :
        /\ flightBookingStorage =
               [id \in keys |-> NewFlightBooking(BasePayload, id, 1)]
        /\ generated = keys
        /\ now = 1
        /\ call = [op |-> "none"]
        /\ result = [tag |-> "none"]
        /\ okAdds = Cardinality(keys)
        /\ okDeletes = 0
        /\ inFlight = <<>>

NextPagination ==
    /\ UNCHANGED inFlight
    /\ \E page \in (-1)..MaxPageArg, pageSize \in (-1)..MaxSizeArg :
           getFlightBookingsPaginated(page, pageSize)

SpecPagination == InitPagination /\ [][NextPagination]_vars

----------------------------------------------------------------------------
(* The list operations on stores of up to MaxRecords bookings of two kinds  *)

\* two payloads that pass both checks and differ in airline and times
ListPayloads ==
    {BasePayload,
     [BasePayload EXCEPT !.airline = <<"A", "b">>,
                         !.departureTime = 2, !.arrivalTime = 3]}

\* the store after one successful add per key
InitLists ==
    \E keys \in SUBSET (1..MaxRecords) :
        \E payloadOf \in [keys -> ListPayloads] :
            /\ flightBookingStorage =
                   [id \in keys |-> NewFlightBooking(payloadOf[id], id, 1)]
            /\ generated = keys
            /\ now = 1
            /\ call = [op |-> "none"]
            /\ result = [tag |-> "none"]
            /\ okAdds = Cardinality(keys)
            /\ okDeletes = 0
            /\ inFlight = <<>>

NextLists ==
    /\ UNCHANGED inFlight
    /\ \/ getFlightBookings
       \/ \E keyword \in Keywords : searchFlightBookings(keyword)
       \/ \E page \in (-1)..MaxPageArg, pageSize \in (-1)..MaxSizeArg :
              getFlightBookingsPaginated(page, pageSize)
       \/ \E startTime \in Times, endTime \in Times :
              getFlightBookingsByTimeRange(startTime, endTime)

SpecLists == InitLists /\ [][NextLists]_vars

----------------------------------------------------------------------------
(* Vocabulary of the claims, stated from the specification's words *)

\* all five fields non-empty / non-zero
AllFieldsPresent(payload) ==
    /\ payload.airline # <<>>
    /\ payload.departureAirport # <<>>
    /\ payload.arrivalAirport # <<>>
    /\ payload.departureTime > 0
    /\ payload.arrivalTime > 0

ValidPayload(payload) ==
    AllFieldsPresent(payload) /\ payload.departureTime < payload.arrivalTime

\* the five payload fields of a record are those of the payload
SamePayloadFields(booking, payload) ==
    /\ booking.airline = payload.airline
    /\ booking.departureAirport = payload.departureAirport
    /\ booking.arrivalAirport = payload.arrivalAirport
    /\ booking.departureTime = payload.departureTime
    /\ booking.arrivalTime = payload.arrivalTime

\* the error kind a message stands for
ErrorKind(msg) ==
    IF msg = <<"Invalid input. Please provide all required fields.">>
    THEN "InvalidInput"
    ELSE IF msg = <<"Arrival time must be after the departure time.">>
    THEN "InvalidTimeRange"
    ELSE IF msg[Len(msg)] \in {" not found", ". Flight booking not found",
                               ". Flight booking not found."}
    THEN "NotFound"
    ELSE "StorageFault"

NamesId(msg, id) == \E i \in 1..Len(msg) : msg[i] = ToString(id)

IsNotFound(res, id) ==
    /\ res.tag = "Err"
    /\ ErrorKind(res.val) = "NotFound"
    /\ NamesId(res.val, id)

IsOk(res) == res.tag = "Ok"

----------------------------------------------------------------------------
\* C1: a valid payload is added successfully, and a getFlightBooking of the
\* returned id right after the add returns a record with the payload's five
\* fields, an id the generator produced, createdAt equal to the clock value
\* read by the add, and no updatedAt.
C1_AddThenGet ==
    [][ /\ (call'.op = "addFlightBooking" /\ ValidPayload(call'.payload))
            => IsOk(result')
        /\ ( /\ call.op = "addFlightBooking"
             /\ IsOk(result)
             /\ call'.op = "getFlightBooking"
             /\ call'.id = result.val.id )
            => /\ IsOk(result')
               /\ SamePayloadFields(result'.val, call.payload)
               /\ result'.val.id = call'.id
               /\ result'.val.id \in generated
               /\ result'.val.createdAt = now
               /\ result'.val.updatedAt = None
      ]_vars

\* an add into a store that already holds a booking has succeeded at a clock
\* value later than the first
C1_Witness ==
    /\ call.op = "addFlightBooking"
    /\ IsOk(result)
    /\ MapLen(flightBookingStorage) = 2
    /\ result.val.createdAt = 2
    /\ \E id \in DOMAIN flightBookingStorage :
           flightBookingStorage[id].createdAt = 1

\* C2: updateFlightBooking with a valid payload on a stored id returns Ok with
\* the record it has stored under that same id; the record keeps the id and
\* createdAt stored before, takes the payload's five fields and has an
\* updatedAt.  Over every step, a booking that stays stored keeps its id and
\* createdAt, and every record is stored under its own id.
C2_UpdatePreservesIdentity ==
    [][ /\ ( /\ call'.op = "updateFlightBooking"
             /\ ValidPayload(call'.payload)
             /\ call'.id \in DOMAIN flightBookingStorage )
            => /\ IsOk(result')
               /\ call'.id \in DOMAIN flightBookingStorage'
               /\ flightBookingStorage'[call'.id] = result'.val
               /\ result'.val.id = flightBookingStorage[call'.id].id
               /\ result'.val.createdAt =
                      flightBookingStorage[call'.id].createdAt
               /\ SamePayloadFields(result'.val, call'.payload)
               /\ Len(result'.val.updatedAt) = 1
        /\ \A id \in (DOMAIN flightBookingStorage)
                         \cap (DOMAIN flightBookingStorage') :
               /\ flightBookingStorage'[id].id = flightBookingStorage[id].id
               /\ flightBookingStorage'[id].createdAt =
                      flightBookingStorage[id].createdAt
        /\ \A id \in DOMAIN flightBookingStorage' :
               flightBookingStorage'[id].id = id
      ]_vars

\* an update has succeeded at a clock value later than the booking's creation
\* and has changed the airline
C2_Witness ==
    /\ call.op = "updateFlightBooking"
    /\ IsOk(result)
    /\ result.val.createdAt = 1
    /\ result.val.updatedAt = Some(2)
    /\ result.val.airline = <<"A", "b">>
    /\ flightBookingStorage[call.id] = result.val

\* C3 as stated: on an id that is not stored, getFlightBooking,
\* deleteFlightBooking and updateFlightBooking with any payload return a
\* NotFound error naming the id and leave the store unchanged.
C3_UnknownIdNotFound_AnyPayload ==
    [][ ( /\ call'.op \in {"getFlightBooking", "deleteFlightBooking",
                           "updateFlightBooking"}
         /\ call'.id \notin DOMAIN flightBookingStorage )
        => /\ IsNotFound(result', call'.id)
           /\ flightBookingStorage' = flightBookingStorage
      ]_vars

\* C3 amended: on an id that is not stored, getFlightBooking and
\* deleteFlightBooking, and updateFlightBooking with a payload that passes
\* both validation checks, return a NotFound error naming the id; update with
\* a payload that fails validation returns that validation error; in every
\* one of these cases the store is unchanged.
C3_UnknownIdNotFound ==
    [][ ( /\ call'.op \in {"getFlightBooking", "deleteFlightBooking",
                           "updateFlightBooking"}
         /\ call'.id \notin DOMAIN flightBookingStorage )
        => /\ IF call'.op = "updateFlightBooking"
                  /\ ~ValidPayload(call'.payload)
              THEN /\ result'.tag = "Err"
                   /\ ErrorKind(result'.val)
                          \in {"InvalidInput", "InvalidTimeRange"}
              ELSE IsNotFound(result', call'.id)
           /\ flightBookingStorage' = flightBookingStorage
      ]_vars

\* an update with a valid payload on a deleted id has returned NotFound and
\* has not re-created the booking
C3_Witness ==
    /\ call.op = "updateFlightBooking"
    /\ ValidPayload(call.payload)
    /\ call.id \in generated
    /\ call.id \notin DOMAIN flightBookingStorage
    /\ IsNotFound(result, call.id)

\* C4: deleteFlightBooking on a stored id returns the record stored under it
\* and removes the entry; an id that has been deleted is never stored again,
\* and every getFlightBooking or deleteFlightBooking of it returns NotFound.
C4_DeleteRemoves ==
    [][ /\ ( /\ call'.op = "deleteFlightBooking"
             /\ call'.id \in DOMAIN flightBookingStorage )
            => /\ result' = Ok(flightBookingStorage[call'.id])
               /\ call'.id \notin DOMAIN flightBookingStorage'
        /\ \A id \in generated \ DOMAIN flightBookingStorage :
               /\ id \notin DOMAIN flightBookingStorage'
               /\ ( /\ call'.op \in {"getFlightBooking", "deleteFlightBooking"}
                    /\ call'.id = id )
                   => IsNotFound(result', id)
      ]_vars

\* a second delete of a deleted id has returned NotFound while another booking
\* is stored
C4_Witness ==
    /\ call.op = "deleteFlightBooking"
    /\ call.id \in generated
    /\ IsNotFound(result, call.id)
    /\ MapLen(flightBookingStorage) = 1

\* C5: the map's size is the number of successful adds minus the number of
\* successful deletes; countFlightBookings returns it, and getFlightBookings
\* returns a list of that length.
C5_CountIsAddsMinusDeletes ==
    /\ Cardinality(DOMAIN flightBookingStorage) = okAdds - okDeletes
    /\ call.op = "countFlightBookings" => result = Ok(okAdds - okDeletes)
    /\ call.op = "getFlightBookings"
           => IsOk(result) /\ Len(result.val) = okAdds - okDeletes

\* countFlightBookings has returned 1 after two adds and one delete
C5_Witness ==
    /\ call.op = "countFlightBookings"
    /\ okAdds = 2
    /\ okDeletes = 1
    /\ result.val = 1

\* C6: when addFlightBooking or updateFlightBooking returns InvalidInput or
\* InvalidTimeRange, the store after the call is the store before it.
C6_ValidationFailureLeavesStore ==
    [][ ( /\ call'.op \in {"addFlightBooking", "updateFlightBooking"}
         /\ result'.tag = "Err"
         /\ ErrorKind(result'.val) \in {"InvalidInput", "InvalidTimeRange"} )
        => flightBookingStorage' = flightBookingStorage
      ]_vars

\* an update of a stored booking has been rejected for its time range, and
\* the booking still has no updatedAt
C6_Witness ==
    /\ call.op = "updateFlightBooking"
    /\ result.tag = "Err"
    /\ ErrorKind(result.val) = "InvalidTimeRange"
    /\ call.id \in DOMAIN flightBookingStorage
    /\ flightBookingStorage[call.id].updatedAt = None

\* C7: addFlightBooking returns InvalidInput when a text field is empty or a
\* time is zero; otherwise InvalidTimeRange when departureTime is equal to or
\* greater than arrivalTime; otherwise it succeeds.  A payload that fails
\* both checks gets InvalidInput.
C7_AddValidationOrder ==
    call.op = "addFlightBooking"
    => IF ~AllFieldsPresent(call.payload)
       THEN result.tag = "Err" /\ ErrorKind(result.val) = "InvalidInput"
       ELSE IF call.payload.departureTime >= call.payload.arrivalTime
       THEN result.tag = "Err" /\ ErrorKind(result.val) = "InvalidTimeRange"
       ELSE IsOk(result)

\* an add whose payload has a zero arrivalTime, and so also a departureTime
\* after its arrivalTime, has returned InvalidInput
C7_Witness ==
    /\ call.op = "addFlightBooking"
    /\ call.payload.arrivalTime = 0
    /\ call.payload.departureTime > call.payload.arrivalTime
    /\ result.tag = "Err"
    /\ ErrorKind(result.val) = "InvalidInput"

\* C8: a successful addFlightBooking stores the returned record under an id
\* that was not a key before; the key set grows by exactly that id and every
\* record stored before is still stored, unchanged, under its key.
C8_AddCreatesOneEntry ==
    [][ (call'.op = "addFlightBooking" /\ IsOk(result'))
        => /\ result'.val.id \notin DOMAIN flightBookingStorage
           /\ DOMAIN flightBookingStorage' =
                  (DOMAIN flightBookingStorage) \cup {result'.val.id}
           /\ flightBookingStorage'[result'.val.id] = result'.val
           /\ \A id \in DOMAIN flightBookingStorage :
                  flightBookingStorage'[id] = flightBookingStorage[id]
      ]_vars

\* an add has succeeded under a smaller id than that of a booking already
\* stored, which had been updated before
C8_Witness ==
    /\ call.op = "addFlightBooking"
    /\ IsOk(result)
    /\ \E id \in DOMAIN flightBookingStorage :
           /\ id > result.val.id
           /\ Len(flightBookingStorage[id].updatedAt) = 1

\* the records of a list, as a set
Elements(list) == {list[i] : i \in 1..Len(list)}

NoDuplicates(list) == Cardinality(Elements(list)) = Len(list)

\* C9: getFlightBookingsByTimeRange(startTime, endTime) returns exactly the
\* stored records with departureTime >= startTime and arrivalTime <= endTime,
\* each once.
C9_TimeRangeIsContainment ==
    call.op = "getFlightBookingsByTimeRange"
    => /\ IsOk(result)
       /\ NoDuplicates(result.val)
       /\ Elements(result.val) =
              {flightBookingStorage[id] : id \in
                  {k \in DOMAIN flightBookingStorage :
                      /\ flightBookingStorage[k].departureTime >= call.startTime
                      /\ flightBookingStorage[k].arrivalTime <= call.endTime}}

\* a range query has returned one booking and left out another that overlaps
\* the range without being contained in it
C9_Witness ==
    /\ call.op = "getFlightBookingsByTimeRange"
    /\ Len(result.val) = 1
    /\ \E id \in DOMAIN flightBookingStorage :
           /\ flightBookingStorage[id] \notin Elements(result.val)
           /\ flightBookingStorage[id].departureTime >= call.startTime
           /\ flightBookingStorage[id].departureTime <= call.endTime
           /\ flightBookingStorage[id].arrivalTime > call.endTime

\* two characters are the same letter, whatever their case
SameLetter(c, d) == c = d \/ {c, d} = {"a", "A"} \/ {c, d} = {"b", "B"}

\* text contains keyword at some offset, letters compared without case
ContainsIgnoringCase(text, keyword) ==
    \E offset \in 0..Len(text) :
        /\ offset + Len(keyword) <= Len(text)
        /\ \A i \in 1..Len(keyword) : SameLetter(text[offset + i], keyword[i])

\* C10: searchFlightBookings(keyword) returns exactly the stored records whose
\* airline contains keyword, letters compared without case, each once; the
\* airports play no part; the empty keyword returns every stored record.
C10_SearchMatchesAirlineIgnoringCase ==
    call.op = "searchFlightBookings"
    => /\ IsOk(result)
       /\ NoDuplicates(result.val)
       /\ Elements(result.val) =
              {flightBookingStorage[id] : id \in
                  {k \in DOMAIN flightBookingStorage :
                      ContainsIgnoringCase(flightBookingStorage[k].airline,
                                           call.keyword)}}
       /\ call.keyword = <<>>
              => Elements(result.val) =
                     {flightBookingStorage[id] :
                         id \in DOMAIN flightBookingStorage}

\* a search for "ab" has returned the booking of airline "Ab" and left out a
\* booking of airline "a" whose arrival airport is "b"
C10_Witness ==
    /\ call.op = "searchFlightBookings"
    /\ call.keyword = <<"a", "b">>
    /\ Len(result.val) = 1
    /\ result.val[1].airline = <<"A", "b">>
    /\ \E id \in DOMAIN flightBookingStorage :
           /\ flightBookingStorage[id].airline = <<"a">>
           /\ flightBookingStorage[id].arrivalAirport = <<"b">>

\* the key that has exactly n - 1 smaller keys in the store
KeyAt(n) ==
    CHOOSE k \in DOMAIN flightBookingStorage :
        Cardinality({j \in DOMAIN flightBookingStorage : j < k}) = n - 1

Min(a, b) == IF a < b THEN a ELSE b

\* C11: for page >= 1 and pageSize >= 1, getFlightBookingsPaginated returns Ok
\* with the records at positions (page-1)*pageSize up to, not including,
\* min(page*pageSize, count) of the key-ordered list; past the end of the
\* list that is the empty list.
C11_PageIsSliceOfKeyOrder ==
    ( /\ call.op = "getFlightBookingsPaginated"
      /\ call.page >= 1
      /\ call.pageSize >= 1 )
    => LET count == Cardinality(DOMAIN flightBookingStorage)
           first == (call.page - 1) * call.pageSize
           last == Min(call.page * call.pageSize, count)
       IN  /\ IsOk(result)
           /\ result.val =
                  [i \in 1..(last - first) |->
                      flightBookingStorage[KeyAt(first + i)]]
           /\ first >= count => result.val = <<>>

\* with five bookings stored, page 3 of size 2 has returned the fifth only
C11_Witness ==
    /\ call.op = "getFlightBookingsPaginated"
    /\ call.page = 3
    /\ call.pageSize = 2
    /\ DOMAIN flightBookingStorage = 1..5
    /\ result.val = <<flightBookingStorage[5]>>

\* C12 as stated: getFlightBookingsPaginated with page <= 0 or pageSize <= 0
\* returns Ok with the empty list.
C12_NonPositiveArgsGiveEmptyList ==
    ( /\ call.op = "getFlightBookingsPaginated"
      /\ (call.page <= 0 \/ call.pageSize <= 0) )
    => IsOk(result) /\ Len(result.val) = 0

\* the required fields a payload leaves empty or zero
MissingFields(payload) ==
    {field \in {"airline", "departureAirport", "arrivalAirport"} :
        payload[field] = <<>>}
    \cup {field \in {"departureTime", "arrivalTime"} : payload[field] = 0}

NamesField(msg, field) == \E i \in 1..Len(msg) : msg[i] = field

\* C13 as stated: every error message identifies the offending id or field: a
\* NotFound error of get, update or delete names the missing id, and an
\* InvalidInput error of add or update names a required field that is
\* missing, empty or zero.
C13_ErrorsNameIdOrField ==
    result.tag = "Err"
    => /\ ErrorKind(result.val) = "NotFound" => NamesId(result.val, call.id)
       /\ ErrorKind(result.val) = "InvalidInput"
              => \E field \in MissingFields(call.payload) :
                     NamesField(result.val, field)

\* C14: every stored record has departureTime < arrivalTime, non-zero times
\* and non-empty airline, departureAirport and arrivalAirport.
C14_StoredRecordsAreValid ==
    \A id \in DOMAIN flightBookingStorage :
        LET booking == flightBookingStorage[id]
        IN  /\ booking.departureTime < booking.arrivalTime
            /\ booking.departureTime # 0
            /\ booking.arrivalTime # 0
            /\ booking.airline # <<>>
            /\ booking.departureAirport # <<>>
            /\ booking.arrivalAirport # <<>>

\* two bookings are stored, one of them written by an update, and an update
\* with equal times has just been rejected
C14_Witness ==
    /\ Cardinality(DOMAIN flightBookingStorage) = 2
    /\ \E id \in DOMAIN flightBookingStorage :
           Len(flightBookingStorage[id].updatedAt) = 1
    /\ call.op = "updateFlightBooking"
    /\ call.payload.departureTime = call.payload.arrivalTime
    /\ result.tag = "Err"

\* C15: a booking is stored with no updatedAt by its add; a successful
\* updateFlightBooking of its id sets updatedAt to the clock value that update
\* read; every other step (failed updates included) leaves updatedAt as it
\* was.  So updatedAt is absent exactly until the first successful update and
\* then holds the time of the latest one.
C15_UpdatedAtFollowsUpdates ==
    [][ \A id \in DOMAIN flightBookingStorage' :
            IF call'.op = "updateFlightBooking" /\ call'.id = id /\ IsOk(result')
            THEN flightBookingStorage'[id].updatedAt = Some(now')
            ELSE IF id \in DOMAIN flightBookingStorage
            THEN flightBookingStorage'[id].updatedAt =
                     flightBookingStorage[id].updatedAt
            ELSE flightBookingStorage'[id].updatedAt = None
      ]_vars

\* an update has succeeded at clock value 2 while the other booking, created
\* at clock value 2, has never been updated
C15_Witness ==
    /\ call.op = "updateFlightBooking"
    /\ IsOk(result)
    /\ result.val.updatedAt = Some(2)
    /\ now = 2
    /\ \E id \in DOMAIN flightBookingStorage :
           /\ id # call.id
           /\ flightBookingStorage[id].updatedAt = None
           /\ flightBookingStorage[id].createdAt = 2

\* C16: once updateFlightBooking has looked its record up, the next step of
\* the canister is the write-back of that same update: no other call takes
\* effect in between.  So at the write-back the record read is still the one
\* stored (the update is not derived from a stale read), the id is still a
\* key (a deleted booking is not re-inserted), and the write-back changes
\* that entry only.
C16_UpdateIsIndivisible ==
    [][ inFlight # <<>>
        => LET update == inFlight[1]
           IN  /\ update.id \in DOMAIN flightBookingStorage
               /\ flightBookingStorage[update.id] = update.flightBooking
               /\ inFlight' = <<>>
               /\ call' = call
               /\ DOMAIN flightBookingStorage' = DOMAIN flightBookingStorage
               /\ \A id \in (DOMAIN flightBookingStorage) \ {update.id} :
                      flightBookingStorage'[id] = flightBookingStorage[id]
      ]_vars

\* an update that has read its record is written back while a second
\* booking is stored
C16_Witness ==
    /\ call.op = "updateFlightBooking"
    /\ IsOk(result)
    /\ inFlight = <<>>
    /\ Cardinality(DOMAIN flightBookingStorage) = 2
    /\ result.val.updatedAt = Some(2)
    /\ result.val.createdAt = 1

\* the error kind addFlightBooking returns for a payload it rejects (C7)
AddRejection(payload) ==
    IF ~AllFieldsPresent(payload) THEN "InvalidInput" ELSE "InvalidTimeRange"

\* C17: updateFlightBooking checks the payload as addFlightBooking does, and
\* before it looks the id up: for a payload that add rejects, update returns
\* the error kind add returns, whether or not the id is stored; it returns
\* NotFound only for a payload that passes both checks and an id that is not
\* stored, and succeeds otherwise.
C17_UpdateValidatesBeforeLookup ==
    call.op = "updateFlightBooking"
    => IF ~ValidPayload(call.payload)
       THEN /\ result.tag = "Err"
            /\ ErrorKind(result.val) = AddRejection(call.payload)
       ELSE IF call.id \in DOMAIN flightBookingStorage
       THEN IsOk(result)
       ELSE IsNotFound(result, call.id)

\* an update of an id that is not stored, with a payload whose times are
\* equal, has returned InvalidTimeRange
C17_Witness ==
    /\ call.op = "updateFlightBooking"
    /\ call.id \notin DOMAIN flightBookingStorage
    /\ AllFieldsPresent(call.payload)
    /\ call.payload.departureTime = call.payload.arrivalTime
    /\ result.tag = "Err"
    /\ ErrorKind(result.val) = "InvalidTimeRange"

ReadOperations ==
    {"getFlightBookings", "getFlightBooking", "searchFlightBookings",
     "countFlightBookings", "getFlightBookingsPaginated",
     "getFlightBookingsByTimeRange"}

\* C18: each of the six read operations leaves the store as it was, for
\* every argument and whether it succeeds or not: the same keys, and under
\* each key the same record, updatedAt included.
C18_ReadsLeaveStore ==
    [][ call'.op \in ReadOperations
        => /\ DOMAIN flightBookingStorage' = DOMAIN flightBookingStorage
           /\ \A id \in DOMAIN flightBookingStorage :
                  /\ flightBookingStorage'[id] = flightBookingStorage[id]
                  /\ flightBookingStorage'[id].updatedAt
                         = flightBookingStorage[id].updatedAt
      ]_vars

\* a getFlightBooking has returned a record that had been updated, and the
\* record is still stored, beside a second booking
C18_Witness ==
    /\ call.op = "getFlightBooking"
    /\ IsOk(result)
    /\ result.val.updatedAt # None
    /\ Cardinality(DOMAIN flightBookingStorage) = 2
    /\ flightBookingStorage[call.id] = result.val

\* C19: a successful updateFlightBooking changes only the entry under its
\* id: the keys of the store, and so the count, are the same before and
\* after, and every record under another key is unchanged.  A successful
\* deleteFlightBooking removes the key of its id only and leaves every other
\* record unchanged.
C19_WritesTouchOneEntry ==
    [][ /\ (call'.op = "updateFlightBooking" /\ IsOk(result'))
           => /\ DOMAIN flightBookingStorage' = DOMAIN flightBookingStorage
              /\ MapLen(flightBookingStorage') = MapLen(flightBookingStorage)
              /\ \A id \in (DOMAIN flightBookingStorage) \ {call'.id} :
                     flightBookingStorage'[id] = flightBookingStorage[id]
        /\ (call'.op = "deleteFlightBooking" /\ IsOk(result'))
           => /\ call'.id \in DOMAIN flightBookingStorage
              /\ DOMAIN flightBookingStorage'
                     = (DOMAIN flightBookingStorage) \ {call'.id}
              /\ \A id \in DOMAIN flightBookingStorage' :
                     flightBookingStorage'[id] = flightBookingStorage[id]
      ]_vars

\* a delete of the booking with the larger key has succeeded, and the booking
\* with the smaller key, which had been updated, is still stored
C19_Witness ==
    /\ call.op = "deleteFlightBooking"
    /\ IsOk(result)
    /\ \E id \in DOMAIN flightBookingStorage :
           /\ id < call.id
           /\ flightBookingStorage[id].updatedAt # None

\* pages 1 .. lastPage of the store, one after the other
RECURSIVE ConcatPages(_, _, _)
ConcatPages(store, pageSize, lastPage) ==
    IF lastPage = 0 THEN <<>>
    ELSE ConcatPages(store, pageSize, lastPage - 1)
             \o paginatedBookings(store, lastPage, pageSize)

\* ceil(a / b) for b >= 1
Ceil(a, b) == (a + b - 1) \div b

\* sub is list with some elements left out, the others in the same order
RECURSIVE IsSubsequence(_, _)
IsSubsequence(sub, list) ==
    IF sub = <<>> THEN TRUE
    ELSE IF list = <<>> THEN FALSE
    ELSE IF Head(sub) = Head(list)
    THEN IsSubsequence(Tail(sub), Tail(list))
    ELSE IsSubsequence(sub, Tail(list))

\* C20: with L the list of getFlightBookings, which is the stored records in
\* key order, and for every pageSize >= 1: the pages 1 .. ceil(|L|/pageSize)
\* of getFlightBookingsPaginated, one after the other, are exactly L, so that
\* every record is on exactly one page and in key order, and no page is
\* longer than pageSize; and the results of searchFlightBookings and
\* getFlightBookingsByTimeRange are subsequences of L.
C20_PagesPartitionKeyOrder ==
    LET L == Values(flightBookingStorage)
    IN  /\ Len(L) = Cardinality(DOMAIN flightBookingStorage)
        /\ \A i \in 1..Len(L) : L[i] = flightBookingStorage[KeyAt(i)]
        /\ call.op = "getFlightBookings" => result = Ok(L)
        /\ \A pageSize \in 1..(MaxRecords + 1) :
               LET lastPage == Ceil(Len(L), pageSize)
               IN  /\ ConcatPages(flightBookingStorage, pageSize, lastPage) = L
                   /\ \A page \in 1..lastPage :
                          Len(paginatedBookings(flightBookingStorage, page,
                                                pageSize)) <= pageSize
        /\ call.op \in {"searchFlightBookings", "getFlightBookingsByTimeRange"}
               => /\ IsOk(result)
                  /\ IsSubsequence(result.val, L)

\* with five bookings stored, a search has returned the second and the
\* fourth of them, in that order
C20_Witness ==
    /\ call.op = "searchFlightBookings"
    /\ MapLen(flightBookingStorage) = MaxRecords
    /\ IsOk(result)
    /\ Len(result.val) = 2
    /\ result.val[1] = flightBookingStorage[KeyAt(2)]
    /\ result.val[2] = flightBookingStorage[KeyAt(4)]

====
